---- MODULE Spec2Model ----
(***************************************************************************)
(* leprechaun-cache: the cache coordinator (src/src/leprechaun-cache.ts,   *)
(* lines 1-165) running against a store with MemoryCacheStore's semantics  *)
(* (src/src/storage/redis-cache-store.ts, lines 165-213).                  *)
(*                                                                         *)
(* Every `await` of the coordinator is a step boundary.  A step performs   *)
(* the effect of the store call (or timer, or producer call) the           *)
(* invocation was waiting for and then runs the JavaScript that follows it *)
(* up to the next `await`.  The store is asynchronous (CacheStore returns  *)
(* promises): between the moment a call is issued and the moment it takes  *)
(* effect any other invocation, of this or of another process, may run.    *)
(***************************************************************************)
EXTENDS Naturals, Sequences, FiniteSets, TLC

(* ---- bounds of the model ---- *)
MaxCalls == 3
MaxTime == 4

(* ---- configuration of the coordinator (constructor options) ---- *)
softTtlMs == 2
hardTtlMs == 5
lockTtlMs == 1
waitForUnlockMs == 1
spinMs == 1
waitTimeMs == 1
keyPrefix == "p:"

Calls == 1..MaxCalls
Procs == {1, 2}
Keys == {"k"}

(* Cacheable values the producer can return: an object and the falsy values *)
Kinds == {"object", "undefined", "null", "false", "zero", "empty"}

(* one truthy and one falsy value: the coordinator looks at a value only *)
(* through its truthiness (line 131)                                     *)
PairKinds == {"object", "null"}

VARIABLES
  now,          \* Date.now()
  items,        \* MemoryCacheStore.items : store key -> Maybe [data, ttl]
  locks,        \* MemoryCacheStore.locks : store key -> Maybe [ttl, id]
  inProgress,   \* LeprechaunCache.inProgress, one map per process
  calls,        \* the invocations of get / refresh / clear
  onMissCalls,  \* number of producer invocations so far
  bgErrors,     \* what onBackgroundError has been called with
  used,         \* keys handed to the store and to the producer
  returnStale,  \* constructor option
  onMissKind    \* the kind of value the producer returns

vars == <<now, items, locks, inProgress, calls, onMissCalls, bgErrors, used,
          returnStale, onMissKind>>

(* ---- optional values: null / undefined / '' on one side ---- *)
None == <<>>
Some(x) == <<x>>
The(m) == m[1]

(* JavaScript truthiness of a Cacheable *)
Truthy(v) == v.kind = "object"

Ceil(a, b) == (a + b - 1) \div b

(* line 46 *)
spinWaitCount == Ceil(waitForUnlockMs, spinMs)

(* the key as the caller gave it *)
PrefixKeyNone(key) == key

PrefixKey(key) == keyPrefix \o key
StoreKeys == {PrefixKey(k) : k \in Keys}

(* ------------------------------------------------------------------ *)
(* MemoryCacheStore                                                    *)
(* ------------------------------------------------------------------ *)

(* get: the CacheItem, or null when absent or past its hard expiry *)
StoreGet(sk) ==
  IF items[sk] # None /\ The(items[sk]).ttl >= now
    THEN Some(The(items[sk]).data)
    ELSE None

(* a set that leaves an existing entry in place *)
StoreSetIfAbsent(sk, cacheData, ttl) ==
  IF items[sk] # None THEN items
  ELSE [items EXCEPT ![sk] = Some([data |-> cacheData, ttl |-> now + ttl])]

(* set *)
StoreSet(sk, cacheData, ttl) ==
  [items EXCEPT ![sk] = Some([data |-> cacheData, ttl |-> now + ttl])]

(* del *)
StoreDel(sk) == [items EXCEPT ![sk] = None]

(* a store that treats every lock as expired *)
LockHeldNever(sk) == FALSE

(* lock: refused while an unexpired lock exists *)
LockHeld(sk) == locks[sk] # None /\ The(locks[sk]).ttl >= now

StoreLock(sk, ttl, lockId) ==
  IF LockHeld(sk)
    THEN locks
    ELSE [locks EXCEPT ![sk] = Some([ttl |-> now + ttl, id |-> lockId])]

(* unlock: refused when an unexpired lock with another id exists *)
UnlockRefused(sk, lockId) == LockHeld(sk) /\ The(locks[sk]).id # lockId

StoreUnlock(sk, lockId) ==
  IF UnlockRefused(sk, lockId) THEN locks ELSE [locks EXCEPT ![sk] = None]

(* ------------------------------------------------------------------ *)
(* invocations                                                         *)
(* ------------------------------------------------------------------ *)

(* the state of a promise *)
Pending == [st |-> "pending", v |-> None, e |-> ""]
Ok(v) == [st |-> "ok", v |-> Some(v), e |-> ""]
Err(e) == [st |-> "err", v |-> None, e |-> e]

(* what clear resolves with (del's result) *)
True == [kind |-> "true", ver |-> 0]

NoOps == [get |-> 0, lock |-> 0, miss |-> 0, set |-> 0, unlock |-> 0, del |-> 0]

(* One invocation of get, refresh or clear.  pc is the await it is at;   *)
(* out is the promise of doGet (get), updateCache (refresh) or clear;    *)
(* att is the invocation whose promise a get returns; bg says that doGet *)
(* has returned the stale data and updateCache runs on in the            *)
(* background.  rd, rr are what the two store reads returned, rdClass    *)
(* and rrClass how they related to the clock when the code looked at     *)
(* them, ver the ordinal of its producer call, ops its calls so far, saw  *)
(* the gets of its process and key that were pending when it was issued, *)
(* after the invocations whose write was in the store by then, freed     *)
(* whether the lock it acquired had been released rather than expired,   *)
(* and budget what is left of the documented wait for the refresh        *)
(* (waitTimeMs) of a get that found a stale entry with returnStale set.  *)
NoCall ==
  [kind |-> "none", proc |-> 0, key |-> "", pc |-> "idle", att |-> 0,
   spin |-> FALSE, bg |-> FALSE, lockId |-> 0, didSpin |-> FALSE, i |-> 0,
   wake |-> 0, cacheData |-> None, out |-> Pending,
   rd |-> None, rdClass |-> "", rr |-> None, rrClass |-> "",
   ver |-> 0, ops |-> NoOps, saw |-> {}, after |-> {}, freed |-> FALSE, budget |-> 0]

(* how an entry read from the store relates to the clock: absent, or the *)
(* clock is before, at, or after the entry's soft expiry                 *)
Class(result) ==
  IF result = None THEN "absent"
  ELSE IF now < The(result).expiresAt THEN "before"
  ELSE IF now = The(result).expiresAt THEN "at"
  ELSE "after"

Bump(ops, f) == [ops EXCEPT ![f] = @ + 1]

(* the next unused invocation record *)
Unused(c) == calls[c].kind = "none" /\ \A d \in Calls : d < c => calls[d].kind # "none"

(* an entry that an earlier run of the coordinator wrote softTtlMs before *)
(* this one was constructed: it is at its soft expiry at time 0           *)
OldItem(kind) ==
  [data |-> [data |-> [kind |-> kind, ver |-> 0], expiresAt |-> 0],
   ttl |-> hardTtlMs - softTtlMs]

InitWith(kinds, stale) ==
  /\ now = 0
  /\ returnStale \in stale
  /\ onMissKind \in kinds
  /\ items \in {[sk \in StoreKeys |-> None], [sk \in StoreKeys |-> Some(OldItem(onMissKind))]}
  /\ locks = [sk \in StoreKeys |-> None]
  /\ inProgress = [p \in Procs |-> [k \in Keys |-> 0]]
  /\ calls = [c \in Calls |-> NoCall]
  /\ onMissCalls = 0
  /\ bgErrors = {}
  /\ used = [store |-> {}, miss |-> {}]

Init == InitWith(Kinds, BOOLEAN)

(* ------------------------------------------------------------------ *)
(* LeprechaunCache                                                     *)
(* ------------------------------------------------------------------ *)

Set(c, rec) == calls' = [calls EXCEPT ![c] = rec]

UseStore(key) == [used EXCEPT !.store = @ \cup {PrefixKey(key)}]
UseMiss(key) == [used EXCEPT !.miss = @ \cup {key}]

(* an in-flight table that is never consulted *)
InFlightNone(p, key) == 0

(* line 62: the promise registered for the key, 0 for undefined *)
InFlight(p, key) == inProgress[p][key]

(* line 81: !result *)
IsMiss(result) == result = None

(* an entry that is stale from its expiry instant on *)
IsStaleAtExpiry(result, t) == The(result).expiresAt <= t

(* the comparison the wrong way round *)
IsStaleInverted(result, t) == The(result).expiresAt > t

(* line 84: result.expiresAt < Date.now() *)
IsStale(result, t) == The(result).expiresAt < t

(* line 131: result && result.data *)
RereadHit(result) == result # None /\ Truthy(The(result).data)

(* a loop that never gives up *)
SpinAgainAlways(i) == TRUE

(* line 108: the loop condition, evaluated with i before its increment *)
SpinAgain(i) == i <= spinWaitCount

(* falling back to the entry that was read when there is one *)
LockFailureStale(rec) ==
  IF rec.rd = None THEN Err("lock") ELSE Ok(The(rec.rd).data)

(* lines 124-126: no lock id, updateCache throws *)
LockFailure(rec) == Err("lock")

(* a get that leaves its entry in the table *)
FinallyNever(rec) == inProgress

(* line 69: finally, the entry of the key is deleted *)
Finally(rec) == [inProgress EXCEPT ![rec.proc][rec.key] = 0]

(* a failed refresh that falls back to the entry that was read *)
SettledFallback(rec, outcome) ==
  IF rec.bg THEN rec
  ELSE IF outcome.st = "err" /\ rec.rd # None
    THEN [rec EXCEPT !.out = Ok(The(rec.rd).data)]
    ELSE [rec EXCEPT !.out = outcome]

(* a refresh whose outcome always becomes the outcome of the call *)
SettledAwaited(rec, outcome) == [rec EXCEPT !.out = outcome]

(* a refused lock that is not reported as an error *)
ReportedUnlessRefused(c, rec, outcome) ==
  IF rec.bg /\ outcome.st = "err" /\ outcome.e # "lock"
    THEN bgErrors \cup {<<c, outcome.e>>} ELSE bgErrors

(* a rejection nobody is told about *)
ReportedNever(c, rec, outcome) == bgErrors

(* The promise of updateCache settles.  doGet returned it (lines 82, 89), *)
(* so the promise get awaits settles with it and get's finally runs;      *)
(* refresh returned it (line 76); or doGet has already returned the stale *)
(* data, and a rejection goes to onBackgroundError (line 87).             *)
Settled(rec, outcome) ==
  IF rec.bg THEN rec ELSE [rec EXCEPT !.out = outcome]

Reported(c, rec, outcome) ==
  IF rec.bg /\ outcome.st = "err" THEN bgErrors \cup {<<c, outcome.e>>} ELSE bgErrors

AfterUpdate(rec) ==
  IF rec.kind = "get" /\ ~rec.bg THEN Finally(rec) ELSE inProgress

(* the executions of get(key) of process p that have not settled *)
PendingGets(p, key) ==
  {d \in Calls : /\ calls[d].kind = "get" /\ calls[d].att = d
                 /\ calls[d].proc = p /\ calls[d].key = key
                 /\ calls[d].out.st = "pending"}

(* the invocations whose write the store has performed *)
Written(d) ==
  /\ calls[d].pc \in {"unlock", "done"} /\ calls[d].cacheData # None
  /\ <<d, "set">> \notin bgErrors

Committed == {d \in Calls : Written(d)}

(* a get that always starts an execution of its own *)
getNoDedup(c, p, key) ==
  /\ Unused(c)
  /\ Set(c, [NoCall EXCEPT !.kind = "get", !.proc = p, !.key = key, !.att = c,
                           !.pc = "read", !.saw = PendingGets(p, key),
                           !.after = Committed])
  /\ inProgress' = [inProgress EXCEPT ![p][key] = c]
  /\ UNCHANGED <<now, items, locks, onMissCalls, bgErrors, used, returnStale, onMissKind>>

(* lines 61-66 and 72: get(key), up to its await *)
get(c, p, key) ==
  /\ Unused(c)
  /\ IF InFlight(p, key) = 0
       THEN /\ Set(c, [NoCall EXCEPT !.kind = "get", !.proc = p, !.key = key,
                                     !.att = c, !.pc = "read",
                                     !.saw = PendingGets(p, key),
                                     !.after = Committed])
            /\ inProgress' = [inProgress EXCEPT ![p][key] = c]
       ELSE /\ Set(c, [NoCall EXCEPT !.kind = "get", !.proc = p, !.key = key,
                                     !.att = InFlight(p, key), !.pc = "done",
                                     !.saw = PendingGets(p, key),
                                     !.after = Committed])
            /\ UNCHANGED inProgress
  /\ UNCHANGED <<now, items, locks, onMissCalls, bgErrors, used, returnStale, onMissKind>>

(* lines 75-77 and 121-122: refresh(key) issues its first lock call *)
refresh(c, p, key) ==
  /\ Unused(c)
  /\ Set(c, [NoCall EXCEPT !.kind = "refresh", !.proc = p, !.key = key,
                           !.pc = "lock", !.spin = TRUE, !.after = Committed])
  /\ UNCHANGED <<now, items, locks, inProgress, onMissCalls, bgErrors, used,
                 returnStale, onMissKind>>

(* line 56: clear(key) issues del *)
clear(c, p, key) ==
  /\ Unused(c)
  /\ Set(c, [NoCall EXCEPT !.kind = "clear", !.proc = p, !.key = key, !.pc = "del"])
  /\ UNCHANGED <<now, items, locks, inProgress, onMissCalls, bgErrors, used,
                 returnStale, onMissKind>>

(* a del the store answers without deleting *)
storeDelKeeps(c) ==
  /\ calls[c].pc = "del"
  /\ Set(c, [calls[c] EXCEPT !.pc = "deleted", !.ops = Bump(@, "del")])
  /\ used' = UseStore(calls[c].key)
  /\ UNCHANGED <<now, items, locks, inProgress, onMissCalls, bgErrors, returnStale, onMissKind>>

(* a del that also removes the key's lock *)
storeDelUnlocks(c) ==
  /\ calls[c].pc = "del"
  /\ items' = StoreDel(PrefixKey(calls[c].key))
  /\ locks' = [locks EXCEPT ![PrefixKey(calls[c].key)] = None]
  /\ Set(c, [calls[c] EXCEPT !.pc = "deleted", !.ops = Bump(@, "del")])
  /\ used' = UseStore(calls[c].key)
  /\ UNCHANGED <<now, inProgress, onMissCalls, bgErrors, returnStale, onMissKind>>

(* line 56: del takes effect in the store *)
storeDel(c) ==
  /\ calls[c].pc = "del"
  /\ items' = StoreDel(PrefixKey(calls[c].key))
  /\ Set(c, [calls[c] EXCEPT !.pc = "deleted", !.ops = Bump(@, "del")])
  /\ used' = UseStore(calls[c].key)
  /\ UNCHANGED <<now, locks, inProgress, onMissCalls, bgErrors, returnStale, onMissKind>>

(* lines 57-58: after the await, the in-flight entry is deleted *)
clearDone(c) ==
  /\ calls[c].pc = "deleted"
  /\ inProgress' = Finally(calls[c])
  /\ Set(c, [calls[c] EXCEPT !.pc = "done", !.out = Ok(True)])
  /\ UNCHANGED <<now, items, locks, onMissCalls, bgErrors, used, returnStale, onMissKind>>

(* line 80: the store answers doGet's read *)
storeGet(c) ==
  /\ calls[c].pc = "read"
  /\ Set(c, [calls[c] EXCEPT !.pc = "gotRead", !.rd = StoreGet(PrefixKey(calls[c].key)),
                             !.ops = Bump(@, "get")])
  /\ used' = UseStore(calls[c].key)
  /\ UNCHANGED <<now, items, locks, inProgress, onMissCalls, bgErrors, returnStale, onMissKind>>

(* a background refresh that waits for the lock like any other *)
doGetSpinning(c) ==
  /\ calls[c].pc = "gotRead"
  /\ LET result == calls[c].rd
         rec == [calls[c] EXCEPT !.rdClass = Class(result)]
     IN  IF IsMiss(result)
           THEN /\ Set(c, [rec EXCEPT !.pc = "lock", !.spin = TRUE])
                /\ UNCHANGED inProgress
           ELSE IF IsStale(result, now)
             THEN IF returnStale
                    THEN /\ Set(c, [rec EXCEPT !.pc = "lock", !.spin = TRUE, !.bg = TRUE,
                                               !.out = Ok(The(result).data),
                                               !.budget = waitTimeMs])
                         /\ inProgress' = Finally(rec)
                    ELSE /\ Set(c, [rec EXCEPT !.pc = "lock", !.spin = TRUE])
                         /\ UNCHANGED inProgress
             ELSE /\ Set(c, [rec EXCEPT !.pc = "done", !.out = Ok(The(result).data)])
                  /\ inProgress' = Finally(rec)
  /\ UNCHANGED <<now, items, locks, onMissCalls, bgErrors, used, returnStale, onMissKind>>

(* lines 81-92: doGet after its read *)
doGet(c) ==
  /\ calls[c].pc = "gotRead"
  /\ LET result == calls[c].rd
         rec == [calls[c] EXCEPT !.rdClass = Class(result)]
     IN  IF IsMiss(result)
           THEN /\ Set(c, [rec EXCEPT !.pc = "lock", !.spin = TRUE])
                /\ UNCHANGED inProgress
           ELSE IF IsStale(result, now)
             THEN IF returnStale
                    THEN /\ Set(c, [rec EXCEPT !.pc = "lock", !.spin = FALSE, !.bg = TRUE,
                                               !.out = Ok(The(result).data),
                                               !.budget = waitTimeMs])
                         /\ inProgress' = Finally(rec)
                    ELSE /\ Set(c, [rec EXCEPT !.pc = "lock", !.spin = TRUE])
                         /\ UNCHANGED inProgress
             ELSE /\ Set(c, [rec EXCEPT !.pc = "done", !.out = Ok(The(result).data)])
                  /\ inProgress' = Finally(rec)
  /\ UNCHANGED <<now, items, locks, onMissCalls, bgErrors, used, returnStale, onMissKind>>

(* an updateCache that goes on to the producer when the lock was refused *)
getLockUnchecked(c) ==
  /\ calls[c].pc = "lock"
  /\ LET sk == PrefixKey(calls[c].key)
         rec == [calls[c] EXCEPT !.ops = Bump(@, "lock"), !.freed = locks[sk] = None]
     IN  /\ locks' = StoreLock(sk, lockTtlMs, c)
         /\ Set(c, [rec EXCEPT !.lockId = IF LockHeld(sk) THEN 0 ELSE c,
                               !.pc = "onMiss", !.ver = onMissCalls + 1,
                               !.ops = Bump(@, "miss")])
         /\ onMissCalls' = onMissCalls + 1
         /\ used' = [UseStore(rec.key) EXCEPT !.miss = @ \cup {rec.key}]
  /\ UNCHANGED <<now, items, inProgress, bgErrors, returnStale, onMissKind>>

(* lines 95-110, 112-119 and 122-137: one lock call and what follows it *)
getLock(c) ==
  /\ calls[c].pc = "lock"
  /\ LET sk == PrefixKey(calls[c].key)
         rec == [calls[c] EXCEPT !.ops = Bump(@, "lock"), !.freed = locks[sk] = None]
     IN  /\ locks' = StoreLock(sk, lockTtlMs, c)
         /\ IF ~LockHeld(sk)
              THEN IF rec.didSpin
                     THEN /\ Set(c, [rec EXCEPT !.lockId = c, !.pc = "reread"])
                          /\ used' = UseStore(rec.key)
                          /\ UNCHANGED <<onMissCalls, bgErrors>>
                     ELSE /\ Set(c, [rec EXCEPT !.lockId = c, !.pc = "onMiss",
                                                !.ver = onMissCalls + 1,
                                                !.ops = Bump(@, "miss")])
                          /\ onMissCalls' = onMissCalls + 1
                          /\ used' = [UseStore(rec.key) EXCEPT !.miss = @ \cup {rec.key}]
                          /\ UNCHANGED bgErrors
              ELSE IF rec.spin
                     THEN /\ Set(c, [rec EXCEPT !.pc = "delay", !.wake = now + spinMs])
                          /\ used' = UseStore(rec.key)
                          /\ UNCHANGED <<onMissCalls, bgErrors>>
                     ELSE /\ Set(c, Settled([rec EXCEPT !.pc = "done"], LockFailure(rec)))
                          /\ bgErrors' = Reported(c, rec, LockFailure(rec))
                          /\ used' = UseStore(rec.key)
                          /\ UNCHANGED onMissCalls
  /\ UNCHANGED <<now, items, inProgress, returnStale, onMissKind>>

(* a retry that does not record that it waited *)
spinLockUnflagged(c) ==
  /\ calls[c].pc = "delay"
  /\ now >= calls[c].wake
  /\ LET rec == [calls[c] EXCEPT !.i = @ + 1, !.wake = 0]
     IN  IF SpinAgain(calls[c].i)
           THEN /\ Set(c, [rec EXCEPT !.pc = "lock"])
                /\ UNCHANGED <<bgErrors, inProgress>>
           ELSE /\ Set(c, Settled([rec EXCEPT !.pc = "done"], LockFailure(rec)))
                /\ bgErrors' = Reported(c, rec, LockFailure(rec))
                /\ inProgress' = AfterUpdate(rec)
  /\ UNCHANGED <<now, items, locks, onMissCalls, used, returnStale, onMissKind>>

(* lines 106-109 and 124-126: the delay is over *)
spinLock(c) ==
  /\ calls[c].pc = "delay"
  /\ now >= calls[c].wake
  /\ LET rec == [calls[c] EXCEPT !.didSpin = TRUE, !.i = @ + 1, !.wake = 0]
     IN  IF SpinAgain(calls[c].i)
           THEN /\ Set(c, [rec EXCEPT !.pc = "lock"])
                /\ UNCHANGED <<bgErrors, inProgress>>
           ELSE /\ Set(c, Settled([rec EXCEPT !.pc = "done"], LockFailure(rec)))
                /\ bgErrors' = Reported(c, rec, LockFailure(rec))
                /\ inProgress' = AfterUpdate(rec)
  /\ UNCHANGED <<now, items, locks, onMissCalls, used, returnStale, onMissKind>>

(* line 130: the store answers the read made after a spin *)
storeReread(c) ==
  /\ calls[c].pc = "reread"
  /\ Set(c, [calls[c] EXCEPT !.pc = "gotReread", !.rr = StoreGet(PrefixKey(calls[c].key)),
                             !.ops = Bump(@, "get")])
  /\ used' = UseStore(calls[c].key)
  /\ UNCHANGED <<now, items, locks, inProgress, onMissCalls, bgErrors,
                 returnStale, onMissKind>>

(* lines 131-137: updateCache after that read *)
reread(c) ==
  /\ calls[c].pc = "gotReread"
  /\ LET result == calls[c].rr
         rec == [calls[c] EXCEPT !.rrClass = Class(result)]
     IN  IF RereadHit(result)
           THEN /\ Set(c, [rec EXCEPT !.pc = "unlockEarly"])
                /\ UNCHANGED <<onMissCalls, used>>
           ELSE /\ Set(c, [rec EXCEPT !.pc = "onMiss", !.ver = onMissCalls + 1,
                                      !.ops = Bump(@, "miss")])
                /\ onMissCalls' = onMissCalls + 1
                /\ used' = UseMiss(calls[c].key)
  /\ UNCHANGED <<now, items, locks, inProgress, bgErrors, returnStale, onMissKind>>

(* a return of the re-read data that leaves the lock in place *)
unlockEarlySkipped(c) ==
  /\ calls[c].pc = "unlockEarly"
  /\ Set(c, Settled([calls[c] EXCEPT !.pc = "done"], Ok(The(calls[c].rr).data)))
  /\ inProgress' = AfterUpdate(calls[c])
  /\ UNCHANGED <<now, items, locks, onMissCalls, bgErrors, used, returnStale, onMissKind>>

(* lines 132-133: unlock, then return the data that was read *)
unlockEarly(c) ==
  /\ calls[c].pc = "unlockEarly"
  /\ locks' = StoreUnlock(PrefixKey(calls[c].key), calls[c].lockId)
  /\ Set(c, Settled([calls[c] EXCEPT !.pc = "done", !.ops = Bump(@, "unlock")],
                    Ok(The(calls[c].rr).data)))
  /\ inProgress' = AfterUpdate(calls[c])
  /\ used' = UseStore(calls[c].key)
  /\ UNCHANGED <<now, items, onMissCalls, bgErrors, returnStale, onMissKind>>

(* a refresh that is dropped when its caller has already been answered *)
onMissCancelled(c) ==
  /\ calls[c].pc = "onMiss"
  /\ LET data == [kind |-> onMissKind, ver |-> calls[c].ver]
     IN  Set(c, Settled([calls[c] EXCEPT !.pc = IF calls[c].bg THEN "done" ELSE "set",
                           !.cacheData = Some([data |-> data, expiresAt |-> now + softTtlMs])],
                        Ok(data)))
  /\ inProgress' = AfterUpdate(calls[c])
  /\ UNCHANGED <<now, items, locks, onMissCalls, bgErrors, used, returnStale, onMissKind>>

(* a setAndUnlock that asks for the unlock without writing first *)
onMissResolvedUnwritten(c) ==
  /\ calls[c].pc = "onMiss"
  /\ LET data == [kind |-> onMissKind, ver |-> calls[c].ver]
     IN  Set(c, Settled([calls[c] EXCEPT !.pc = "unlock",
                           !.cacheData = Some([data |-> data, expiresAt |-> now + softTtlMs])],
                        Ok(data)))
  /\ inProgress' = AfterUpdate(calls[c])
  /\ UNCHANGED <<now, items, locks, onMissCalls, bgErrors, used, returnStale, onMissKind>>

(* lines 137-149: the producer resolves; setAndUnlock issues the write *)
onMissResolved(c) ==
  /\ calls[c].pc = "onMiss"
  /\ LET data == [kind |-> onMissKind, ver |-> calls[c].ver]
     IN  Set(c, Settled([calls[c] EXCEPT !.pc = "set",
                           !.cacheData = Some([data |-> data, expiresAt |-> now + softTtlMs])],
                        Ok(data)))
  /\ inProgress' = AfterUpdate(calls[c])
  /\ UNCHANGED <<now, items, locks, onMissCalls, bgErrors, used, returnStale, onMissKind>>

(* line 137: the producer rejects and updateCache rejects with it *)
onMissRejected(c) ==
  /\ calls[c].pc = "onMiss"
  /\ Set(c, Settled([calls[c] EXCEPT !.pc = "done"], Err("onMiss")))
  /\ bgErrors' = Reported(c, calls[c], Err("onMiss"))
  /\ inProgress' = AfterUpdate(calls[c])
  /\ UNCHANGED <<now, items, locks, onMissCalls, used, returnStale, onMissKind>>

(* lines 153-157: the write takes effect, or fails and is reported *)
setDone(c) ==
  /\ calls[c].pc = "set"
  /\ items' = StoreSet(PrefixKey(calls[c].key), The(calls[c].cacheData), hardTtlMs)
  /\ Set(c, [calls[c] EXCEPT !.pc = "unlock", !.ops = Bump(@, "set")])
  /\ used' = UseStore(calls[c].key)
  /\ UNCHANGED <<now, locks, inProgress, onMissCalls, bgErrors, returnStale, onMissKind>>

(* a failed write that ends setAndUnlock *)
setFailedNoUnlock(c) ==
  /\ calls[c].pc = "set"
  /\ bgErrors' = bgErrors \cup {<<c, "set">>}
  /\ Set(c, [calls[c] EXCEPT !.pc = "done", !.ops = Bump(@, "set")])
  /\ used' = UseStore(calls[c].key)
  /\ UNCHANGED <<now, items, locks, inProgress, onMissCalls, returnStale, onMissKind>>

setFailed(c) ==
  /\ calls[c].pc = "set"
  /\ bgErrors' = bgErrors \cup {<<c, "set">>}
  /\ Set(c, [calls[c] EXCEPT !.pc = "unlock", !.ops = Bump(@, "set")])
  /\ used' = UseStore(calls[c].key)
  /\ UNCHANGED <<now, items, locks, inProgress, onMissCalls, returnStale, onMissKind>>

(* lines 159-163: the unlock takes effect, or fails and is reported *)
unlockDone(c) ==
  /\ calls[c].pc = "unlock"
  /\ locks' = StoreUnlock(PrefixKey(calls[c].key), calls[c].lockId)
  /\ Set(c, [calls[c] EXCEPT !.pc = "done", !.ops = Bump(@, "unlock")])
  /\ used' = UseStore(calls[c].key)
  /\ UNCHANGED <<now, items, inProgress, onMissCalls, bgErrors, returnStale, onMissKind>>

unlockFailed(c) ==
  /\ calls[c].pc = "unlock"
  /\ bgErrors' = bgErrors \cup {<<c, "unlock">>}
  /\ Set(c, [calls[c] EXCEPT !.pc = "done", !.ops = Bump(@, "unlock")])
  /\ used' = UseStore(calls[c].key)
  /\ UNCHANGED <<now, items, locks, inProgress, onMissCalls, returnStale, onMissKind>>

(* the clock *)
Tick ==
  /\ now < MaxTime
  /\ now' = now + 1
  /\ calls' = [c \in Calls |->
                [calls[c] EXCEPT !.budget = IF @ > 0 THEN @ - 1 ELSE 0]]
  /\ UNCHANGED <<items, locks, inProgress, onMissCalls, bgErrors, used,
                 returnStale, onMissKind>>

(* ------------------------------------------------------------------ *)
(* RedisCacheStore: lock and unlock as its clients see them            *)
(* ------------------------------------------------------------------ *)

(* SET lockKey lockId PX ttl NX: the key exists until ttl has passed *)
RedisLockHeld(sk) == locks[sk] # None /\ The(locks[sk]).ttl > now

(* lines 128-141: lock, one SET NX command, answered OK or not *)
redisLock(c, p, key) ==
  /\ Unused(c)
  /\ LET sk == PrefixKey(key)
         rec == [NoCall EXCEPT !.kind = "lock", !.proc = p, !.key = key,
                               !.ops = Bump(@, "lock")]
     IN  IF RedisLockHeld(sk)
           THEN /\ Set(c, [rec EXCEPT !.pc = "done", !.out = Ok([kind |-> "false", ver |-> 0])])
                /\ UNCHANGED locks
           ELSE /\ Set(c, [rec EXCEPT !.pc = "held", !.lockId = c])
                /\ locks' = [locks EXCEPT ![sk] = Some([ttl |-> now + lockTtlMs, id |-> c])]
  /\ used' = UseStore(key)
  /\ UNCHANGED <<now, items, inProgress, onMissCalls, bgErrors, returnStale, onMissKind>>

(* lines 145-146 and 153-155: unlock's GET is answered; a value equal to *)
(* lockId sends the DEL, anything else resolves false                    *)
redisUnlockGet(c) ==
  /\ calls[c].pc = "held"
  /\ LET sk == PrefixKey(calls[c].key)
     IN  IF RedisLockHeld(sk) /\ The(locks[sk]).id = calls[c].lockId
           THEN Set(c, [calls[c] EXCEPT !.pc = "del"])
           ELSE Set(c, [calls[c] EXCEPT !.pc = "done",
                                        !.out = Ok([kind |-> "false", ver |-> 0])])
  /\ used' = UseStore(calls[c].key)
  /\ UNCHANGED <<now, items, locks, inProgress, onMissCalls, bgErrors,
                 returnStale, onMissKind>>

(* lines 147-152: the DEL of the lock key is performed *)
redisUnlockDel(c) ==
  /\ calls[c].kind = "lock" /\ calls[c].pc = "del"
  /\ locks' = [locks EXCEPT ![PrefixKey(calls[c].key)] = None]
  /\ Set(c, [calls[c] EXCEPT !.pc = "done", !.ops = Bump(@, "unlock"), !.out = Ok(True)])
  /\ used' = UseStore(calls[c].key)
  /\ UNCHANGED <<now, items, inProgress, onMissCalls, bgErrors, returnStale, onMissKind>>

(* ------------------------------------------------------------------ *)
(* specifications                                                      *)
(* ------------------------------------------------------------------ *)

(* everything: two processes, every operation, a store that may fail *)
Issue ==
  \E c \in Calls, p \in Procs, key \in Keys :
    get(c, p, key) \/ refresh(c, p, key) \/ clear(c, p, key)

Step ==
  \E c \in Calls :
    \/ storeGet(c) \/ doGet(c) \/ getLock(c) \/ spinLock(c)
    \/ storeReread(c) \/ reread(c) \/ unlockEarly(c)
    \/ onMissResolved(c) \/ onMissRejected(c)
    \/ setDone(c) \/ setFailed(c) \/ unlockDone(c) \/ unlockFailed(c)
    \/ storeDel(c) \/ clearDone(c)

Next == Issue \/ Step \/ Tick

Spec == Init /\ [][Next]_vars

(* one process that only calls get; the store does not fail *)
IssueGets == \E c \in Calls, key \in Keys : get(c, 1, key)

StepGets ==
  \E c \in Calls :
    \/ storeGet(c) \/ doGet(c) \/ getLock(c) \/ spinLock(c)
    \/ storeReread(c) \/ reread(c) \/ unlockEarly(c)
    \/ onMissResolved(c) \/ onMissRejected(c)
    \/ setDone(c) \/ unlockDone(c)

NextGets == IssueGets \/ StepGets \/ Tick

SpecGets == Init /\ [][NextGets]_vars

(* two processes sharing the store, returnStale = false: the first get  *)
(* is process 2's, the second process 1's, the others are of either;    *)
(* the store does not fail                                              *)
InitPair == InitWith(PairKinds, {FALSE})

IssuePair ==
  \E c \in Calls, p \in Procs, key \in Keys :
    /\ c = 1 => p = 2
    /\ c = 2 => p = 1
    /\ get(c, p, key)

NextPair == IssuePair \/ StepGets \/ Tick

SpecPair == InitPair /\ [][NextPair]_vars

(* one process that only calls get, with returnStale = true; the       *)
(* store may fail the deferred write and the deferred unlock            *)
InitStale == InitWith(PairKinds, {TRUE})

StepStale ==
  \E c \in Calls :
    \/ storeGet(c) \/ doGet(c) \/ getLock(c) \/ spinLock(c)
    \/ storeReread(c) \/ reread(c) \/ unlockEarly(c)
    \/ onMissResolved(c) \/ onMissRejected(c)
    \/ setDone(c) \/ setFailed(c) \/ unlockDone(c) \/ unlockFailed(c)

NextStale == IssueGets \/ StepStale \/ Tick

SpecStale == InitStale /\ [][NextStale]_vars

(* one process that only calls get on a stored entry, with returnStale  *)
(* = true; the producer resolves and the store answers every call, and  *)
(* no continuation that is ready to run is held back for ever.  The     *)
(* retry after a refused lock is left out: here only a get that misses  *)
(* spins, the entry is missing at its hard expiry at the earliest and   *)
(* the retry would be due after MaxTime.                                *)
InitRace ==
  /\ InitWith({"object"}, {TRUE})
  /\ \A sk \in StoreKeys : items[sk] # None

StepRace ==
  \E c \in Calls :
    \/ storeGet(c) \/ doGet(c) \/ getLock(c)
    \/ onMissResolved(c) \/ setDone(c) \/ unlockDone(c)

NextRace == IssueGets \/ StepRace \/ Tick

SpecRace == InitRace /\ [][NextRace]_vars /\ WF_vars(StepRace)

(* one process whose caller awaits each call before it issues the next: *)
(* a get, a refresh, then gets; the store does not fail                 *)
Awaited(c) == IF c = 1 THEN TRUE ELSE calls[c - 1].out.st # "pending"

IssueAwaited ==
  \E c \in Calls, key \in Keys :
    /\ Awaited(c)
    /\ IF c = 2 THEN refresh(c, 1, key) ELSE get(c, 1, key)

NextAwaited == IssueAwaited \/ StepGets \/ Tick

SpecAwaited == InitWith(PairKinds, BOOLEAN) /\ [][NextAwaited]_vars

(* one process that calls get, then refresh, then clear, without        *)
(* awaiting them; the producer returns an object and the store does not *)
(* fail                                                                 *)
InitClear == InitWith({"object"}, BOOLEAN)

IssueClear ==
  \E c \in Calls, key \in Keys :
    IF c = 1 THEN get(c, 1, key)
    ELSE IF c = 2 THEN refresh(c, 1, key)
    ELSE clear(c, 1, key)

StepClear ==
  \/ StepGets
  \/ \E c \in Calls : storeDel(c) \/ clearDone(c)

NextClear == IssueClear \/ StepClear \/ Tick

SpecClear == InitClear /\ [][NextClear]_vars

(* two processes that call get with returnStale = false while every     *)
(* producer call stays pending or fails, so that a lock once given is   *)
(* held until it expires.  The store answers every lock call and every  *)
(* sleep ends: the clock keeps running past MaxTime for as long as a    *)
(* sleep is due.                                                        *)
InitWait == InitWith({"object"}, {FALSE})

StepWait ==
  \E c \in Calls :
    \/ storeGet(c) \/ doGet(c) \/ getLock(c) \/ spinLock(c)
    \/ storeReread(c) \/ reread(c) \/ unlockEarly(c)
    \/ onMissRejected(c)

Sleep ==
  /\ now >= MaxTime
  /\ \E c \in Calls : calls[c].pc = "delay" /\ now < calls[c].wake
  /\ now' = now + 1
  /\ calls' = [c \in Calls |->
                [calls[c] EXCEPT !.budget = IF @ > 0 THEN @ - 1 ELSE 0]]
  /\ UNCHANGED <<items, locks, inProgress, onMissCalls, bgErrors, used,
                 returnStale, onMissKind>>

NextWait == IssuePair \/ StepWait \/ Tick \/ Sleep

SpecWait ==
  /\ InitWait /\ [][NextWait]_vars
  /\ WF_vars(Tick \/ Sleep)
  /\ \A c \in Calls : WF_vars(getLock(c)) /\ WF_vars(spinLock(c))

(* invocation c has been given the lock and has not finished *)
Running(c) == calls[c].lockId # 0 /\ calls[c].pc # "done"

(* the clock, for locks that outlast their holders: it does not pass the *)
(* ttl of a lock whose holder has not finished                           *)
TickHeld ==
  /\ \A c \in Calls :
       Running(c) =>
         LET lock == locks[PrefixKey(calls[c].key)]
         IN  lock # None /\ The(lock).id = calls[c].lockId => The(lock).ttl > now
  /\ Tick

(* one process that calls get, refresh and clear in any order without   *)
(* awaiting them, with a lockTtlMs long enough for every holder; the    *)
(* producer returns an object and the store does not fail               *)
IssueHeld ==
  \E c \in Calls, key \in Keys :
    get(c, 1, key) \/ refresh(c, 1, key) \/ clear(c, 1, key)

NextHeld == IssueHeld \/ StepClear \/ TickHeld

SpecHeld == InitClear /\ [][NextHeld]_vars

(* clients of a RedisCacheStore that lock a key and unlock it with the  *)
(* lockId they were given, while the clock runs                         *)
InitRedis == InitWith({"object"}, BOOLEAN)

IssueRedis == \E c \in Calls, p \in Procs, key \in Keys : redisLock(c, p, key)

StepRedis == \E c \in Calls : redisUnlockGet(c) \/ redisUnlockDel(c)

NextRedis == IssueRedis \/ StepRedis \/ Tick

SpecRedis == InitRedis /\ [][NextRedis]_vars

(* two processes that each call get with returnStale = false on a       *)
(* stored entry, and ask for the lock only after both have read it      *)
InitCycle ==
  /\ InitWith(PairKinds, {FALSE})
  /\ \A sk \in StoreKeys : items[sk] # None

BothRead == calls[1].ops.get > 0 /\ calls[2].ops.get > 0

getLockAfterReads(c) == BothRead /\ getLock(c)

StepCycle ==
  \E c \in Calls :
    \/ storeGet(c) \/ doGet(c) \/ getLockAfterReads(c) \/ spinLock(c)
    \/ storeReread(c) \/ reread(c) \/ unlockEarly(c)
    \/ onMissResolved(c) \/ onMissRejected(c)
    \/ setDone(c) \/ unlockDone(c)

NextCycle == IssuePair \/ StepCycle \/ Tick

SpecCycle == InitCycle /\ [][NextCycle]_vars

(* ------------------------------------------------------------------ *)
(* properties                                                          *)
(* ------------------------------------------------------------------ *)

IsGet(c) == calls[c].kind = "get"
IsLeader(c) == IsGet(c) /\ calls[c].att = c
IsFollower(c) == IsGet(c) /\ calls[c].att # c

(* what the caller of invocation c gets: a get that found a promise in   *)
(* the in-flight table returns that promise (line 72)                    *)
Outcome(c) == IF IsFollower(c) THEN calls[calls[c].att].out ELSE calls[c].out

Produced(c) == [kind |-> onMissKind, ver |-> calls[c].ver]

(* the first call is a get that found no entry and has settled, and     *)
(* every other call is a get issued while it was pending                 *)
FirstAccess ==
  /\ IsGet(1) /\ calls[1].rdClass = "absent" /\ calls[1].out.st # "pending"
  /\ \A c \in Calls : c > 1 /\ calls[c].kind # "none" => IsGet(c) /\ calls[c].saw = {1}

(* C1: first access.  The first call is a get that finds no entry, and   *)
(* every other call is a get issued while it was pending: once it has    *)
(* settled the producer has been invoked exactly once, by it, and every  *)
(* call has the outcome of that invocation (its value, or its failure).  *)
C1_FirstAccessOnce ==
  FirstAccess =>
    /\ onMissCalls = 1 /\ calls[1].ops.miss = 1
    /\ calls[1].out \in {Ok(Produced(1)), Err("onMiss")}
    /\ \A c \in Calls : calls[c].kind # "none" => Outcome(c) = calls[1].out

C1_Witness ==
  /\ FirstAccess
  /\ calls[1].out.st = "ok"
  /\ \A c \in Calls : IsGet(c)

C3_FreshNoRefresh ==
  \A c \in Calls :
    IsLeader(c) /\ calls[c].rdClass = "before" =>
      /\ calls[c].out = Ok(The(calls[c].rd).data)
      /\ calls[c].pc = "done"
      /\ calls[c].ops = [NoOps EXCEPT !.get = 1]
      /\ calls[c].lockId = 0

C3_Witness ==
  \E c \in Calls :
    /\ IsLeader(c) /\ calls[c].rdClass = "before"
    /\ calls[c].out = Ok(The(calls[c].rd).data)

HasSettled(c) == calls[c].out.st # "pending"

(* the value invocation d handed to the store *)
DataOf(d) == The(calls[d].cacheData).data

(* C4: the first call is a get that found no entry and returned what it  *)
(* produced; the second is a get issued after that and settled before    *)
(* the soft expiry of that value.  Whatever the order in which the first *)
(* call's write and unlock and the second call's read and lock attempts  *)
(* took effect, the second returned the same value and the producer has  *)
(* been invoked once.                                                    *)
C4_SecondGetReuses ==
  ( /\ IsGet(1) /\ calls[1].rdClass = "absent" /\ calls[1].out = Ok(Produced(1))
    /\ IsLeader(2) /\ calls[2].saw = {} /\ HasSettled(2)
    /\ calls[3].kind = "none"
    /\ now < The(calls[1].cacheData).expiresAt )
  => /\ calls[2].out = calls[1].out
     /\ onMissCalls = 1

(* C5: with returnStale = false a get that read a stale entry and has    *)
(* returned a value returned one produced after the entry it read, never *)
(* the data of that entry.                                               *)
C5_NeverTheStaleData ==
  \A c \in Calls :
    IsLeader(c) /\ ~returnStale /\ calls[c].rdClass = "after" /\ calls[c].out.st = "ok"
      => The(calls[c].out.v).ver > The(calls[c].rd).data.ver

(* a get that read a stale entry with returnStale = true *)
StaleServed(r) == IsLeader(r) /\ returnStale /\ calls[r].rdClass = "after"

(* such a get has returned the entry's data, and before any lock call is *)
(* answered its refresh has been started and the producer not called     *)
ReturnsStaleAtOnce ==
  \A r \in Calls :
    StaleServed(r) =>
      /\ calls[r].bg /\ calls[r].out = Ok(The(calls[r].rd).data)
      /\ calls[r].ops.lock = 0 => calls[r].pc = "lock" /\ calls[r].ops.miss = 0

Waited ==
  /\ ~returnStale
  /\ IsGet(1) /\ Written(1) /\ calls[1].pc = "done"
  /\ IsLeader(2) /\ calls[2].rdClass = "after" /\ calls[2].didSpin
  /\ calls[2].lockId = 2 /\ calls[2].freed /\ HasSettled(2)
  /\ IsFollower(3) /\ calls[3].att = 2

(* C7: returnStale = false.  Process 2's call holds the lease, writes    *)
(* and releases it; process 1's get read a stale entry, was refused the  *)
(* lease at first and acquired it once released, and a second get of     *)
(* process 1 was issued while the first was pending.  Both resolve to    *)
(* the value the holder wrote and the producer has been invoked once.    *)
C7_WaitersGetHolderValue ==
  Waited =>
    /\ calls[2].out = Ok(DataOf(1))
    /\ Outcome(3) = Ok(DataOf(1))
    /\ onMissCalls = 1

(* C8: the producer returns a falsy value.  A get that found a stored    *)
(* entry before its soft expiry, at its first read or at the read it     *)
(* makes after waiting for the lock, does not invoke the producer and    *)
(* returns the stored value.                                             *)
C8_FalsyRoundTrip ==
  \A c \in Calls :
    IsLeader(c) /\ ~Truthy([kind |-> onMissKind]) =>
      /\ calls[c].rdClass = "before" =>
           calls[c].ops.miss = 0 /\ calls[c].out = Ok(The(calls[c].rd).data)
      /\ calls[c].rrClass = "before" =>
           calls[c].ops.miss = 0 /\ (HasSettled(c) => calls[c].out = Ok(The(calls[c].rr).data))

(* the producer call of invocation c has failed and the failure has      *)
(* reached the caller or, for a background refresh, onBackgroundError    *)
ProducerFailed(c) ==
  calls[c].out = Err("onMiss") \/ <<c, "onMiss">> \in bgErrors

(* C9: once the producer of an invocation that holds the lease has       *)
(* failed, the failure is the outcome of the refresh, unlock has been    *)
(* called with its token and the lease is no longer held with it.        *)
C9_ProducerFailureUnlocks ==
  \A c \in Calls :
    ProducerFailed(c) =>
      /\ calls[c].ops.unlock = 1
      /\ ~(\E sk \in StoreKeys : LockHeld(sk) /\ The(locks[sk]).id = calls[c].lockId)

(* a get with returnStale = false that read a stale entry and ended      *)
(* without ever having been given the lock                               *)
GaveUp(c) ==
  /\ IsLeader(c) /\ ~returnStale /\ calls[c].rdClass = "after"
  /\ calls[c].pc = "done" /\ calls[c].lockId = 0

(* C10: with returnStale = false a get that read a stale entry and whose *)
(* lock attempts were all refused rejects with the lock error; it does   *)
(* not return the stale data.                                            *)
C10_RejectsWhenLeaseHeld ==
  \A c \in Calls : GaveUp(c) => calls[c].out = Err("lock") /\ calls[c].ops.miss = 0

C10_Witness ==
  \E c \in Calls : GaveUp(c) /\ calls[c].out = Err("lock") /\ calls[c].ops.lock > 2

(* a get with returnStale = false that read a stale entry and whose      *)
(* refresh has failed: the lock was never given, or the producer failed  *)
RefreshFailed(c) ==
  /\ IsLeader(c) /\ ~returnStale /\ calls[c].rdClass = "after"
  /\ calls[c].pc = "done" /\ calls[c].cacheData = None
  /\ calls[c].lockId = 0 \/ (calls[c].ops.miss = 1 /\ calls[c].ops.unlock = 0)

ReportedFor(c) == {e \in {"lock", "onMiss", "set", "unlock"} : <<c, e>> \in bgErrors}

(* C11 as stated: with returnStale = false a get that read a stale entry *)
(* and whose refresh failed has passed the failure to onBackgroundError  *)
(* and resolved with the stale data.                                     *)
C11_FallsBackToStale ==
  \A c \in Calls :
    RefreshFailed(c) =>
      /\ calls[c].out = Ok(The(calls[c].rd).data)
      /\ ReportedFor(c) # {}

(* C11 amended: such a get rejects with the failure of its refresh, the  *)
(* lock error or the producer's error, and onBackgroundError is not      *)
(* called for it.                                                        *)
C11_RejectsWithFailure ==
  \A c \in Calls :
    RefreshFailed(c) =>
      /\ calls[c].out = (IF calls[c].lockId = 0 THEN Err("lock") ELSE Err("onMiss"))
      /\ ReportedFor(c) = {}

C11_Witness ==
  \E c \in Calls : RefreshFailed(c) /\ calls[c].out = Err("onMiss")

(* the steps in which the deferred write or the deferred unlock of an    *)
(* invocation ends without the store having performed it                 *)
SetFails(c) ==
  /\ calls[c].pc = "set" /\ calls'[c].pc = "unlock" /\ items' = items

UnlockFails(c) ==
  /\ calls[c].pc = "unlock" /\ calls'[c].pc = "done" /\ locks' = locks
  /\ locks[PrefixKey(calls[c].key)] # None
  /\ ~UnlockRefused(PrefixKey(calls[c].key), calls[c].lockId)

(* what has gone wrong in the background refresh of a get that was       *)
(* served stale data                                                     *)
BackgroundFailure(c) ==
  IF calls[c].pc # "done" \/ calls[c].cacheData # None THEN {}
  ELSE IF calls[c].lockId = 0 THEN {"lock"} ELSE {"onMiss"}

(* C12: with returnStale = true a get that read a stale entry resolves   *)
(* with the stale data whatever happens to its background refresh, and   *)
(* a refused lock, a producer error, a failed write and a failed unlock  *)
(* are each passed to onBackgroundError.                                 *)
C12_BackgroundFailuresReported ==
  /\ [](\A c \in Calls :
          StaleServed(c) =>
            /\ calls[c].out = Ok(The(calls[c].rd).data)
            /\ BackgroundFailure(c) \subseteq ReportedFor(c))
  /\ [][\A c \in Calls :
          /\ StaleServed(c) /\ SetFails(c) => <<c, "set">> \in bgErrors'
          /\ StaleServed(c) /\ UnlockFails(c) => <<c, "unlock">> \in bgErrors']_vars

C12_Witness ==
  \E c, d \in Calls :
    /\ StaleServed(c) /\ ReportedFor(c) = {"set", "unlock"}
    /\ StaleServed(d) /\ ReportedFor(d) = {"lock"}
    /\ calls[c].out.st = "ok" /\ calls[d].out.st = "ok"

(* C13: returnStale = true and waitTimeMs > 0.  A get that read a stale  *)
(* entry and whose producer call resolved before the wait of waitTimeMs, *)
(* counted from the moment it saw the entry was stale, was over returns  *)
(* the value just produced, not the stale one.                           *)
C13_FastRefreshWins ==
  \A c \in Calls :
    /\ StaleServed(c) /\ waitTimeMs > 0
    /\ calls[c].cacheData # None /\ calls[c].budget > 0
    => calls[c].out = Ok(DataOf(c))

(* the wait of waitTimeMs of a get served stale data is over and the     *)
(* producer call of its refresh has not resolved yet                     *)
LostRace(c) == StaleServed(c) /\ calls[c].pc = "onMiss" /\ calls[c].budget = 0

(* the refresh of invocation c has written its value and given up the    *)
(* lease                                                                 *)
RanToCompletion(c) ==
  /\ calls[c].pc = "done" /\ Written(c) /\ calls[c].ops.unlock = 1
  /\ StoreGet(PrefixKey(calls[c].key)) # None
  /\ ~(\E sk \in StoreKeys : LockHeld(sk) /\ The(locks[sk]).id = calls[c].lockId)

(* C14: returnStale = true.  A get whose refresh is still in its         *)
(* producer call when the wait of waitTimeMs is over has returned the    *)
(* stale data; its refresh is not cancelled: the producer call resolves, *)
(* the produced value is written to the store and the lease is released. *)
C14_LoserRunsToCompletion ==
  /\ [](\A c \in Calls :
          /\ LostRace(c) => calls[c].out = Ok(The(calls[c].rd).data)
          /\ StaleServed(c) /\ calls[c].pc = "done" /\ calls[c].cacheData # None
               => calls[c].ops.set = 1 /\ calls[c].ops.unlock = 1)
  /\ \A c \in Calls : LostRace(c) ~> RanToCompletion(c)

C14_Witness ==
  \E c \in Calls :
    /\ StaleServed(c) /\ calls[c].budget = 0 /\ RanToCompletion(c)
    /\ calls[c].out = Ok(The(calls[c].rd).data)
    /\ The(items[PrefixKey(calls[c].key)]).data.data = DataOf(c)

IsRefresh(c) == calls[c].kind = "refresh"

(* C15: a refresh that has resolved with a value has invoked the         *)
(* producer once itself, resolved with what it produced and handed that  *)
(* value to the store, whether or not it had to wait for the lock.       *)
C15_RefreshAlwaysProduces ==
  \A c \in Calls :
    IsRefresh(c) /\ calls[c].out.st = "ok" =>
      /\ calls[c].ops.miss = 1
      /\ calls[c].cacheData # None
      /\ calls[c].out = Ok(DataOf(c))

(* the first call is a get that wrote an entry which is still before its *)
(* soft expiry; the second is a refresh issued after that write took     *)
(* effect, which has resolved with the value it produced; the third is a *)
(* get issued after the refresh resolved, and it has settled             *)
RefreshedWhileFresh ==
  /\ IsGet(1) /\ IsRefresh(2) /\ IsGet(3)
  /\ calls[1].cacheData # None
  /\ 1 \in calls[2].after
  /\ now < The(calls[1].cacheData).expiresAt
  /\ calls[2].ops.miss = 1
  /\ calls[2].cacheData # None
  /\ calls[2].out = Ok(DataOf(2))
  /\ HasSettled(3)

Performed(f) == \E c \in Calls : calls[c].ops[f] > 0

(* C17: every key handed to the store in a get, set, del, lock or unlock *)
(* is keyPrefix followed by a caller's key, and every key handed to the  *)
(* producer is a caller's key without the prefix.                        *)
C17_PrefixOnStoreOnly ==
  /\ used.store \subseteq {keyPrefix \o k : k \in Keys}
  /\ used.miss \subseteq Keys
  /\ used.store \cap used.miss = {}

C17_Witness ==
  /\ \A f \in {"get", "set", "del", "lock", "unlock", "miss"} : Performed(f)
  /\ used.store = {keyPrefix \o k : k \in Keys}
  /\ used.miss = Keys

IsClear(c) == calls[c].kind = "clear"

(* C18: clear issues one del and no lock or unlock; the step in which    *)
(* the store performs the del leaves the key without a stored entry, and *)
(* no step of a clear changes any lock, so a lock held before the clear  *)
(* is held under the same lockId after it.                               *)
C18_ClearKeepsLeases ==
  /\ [](\A c \in Calls :
          IsClear(c) =>
            /\ calls[c].ops.lock = 0 /\ calls[c].ops.unlock = 0
            /\ calls[c].ops.set = 0 /\ calls[c].ops.del <= 1
            /\ HasSettled(c) => calls[c].ops.del = 1)
  /\ [][\A c \in Calls :
          IsClear(c)' /\ calls'[c] # calls[c] =>
            /\ locks' = locks
            /\ calls'[c].ops.del > calls[c].ops.del =>
                 StoreGet(PrefixKey(calls[c].key))' = None]_vars

(* a clear has deleted the entry while an update holds the key's lock    *)
(* and is waiting for the producer                                       *)
C18_Witness ==
  \E c, d \in Calls :
    /\ IsClear(c) /\ HasSettled(c)
    /\ calls[d].pc = "onMiss"
    /\ LockHeld(PrefixKey(calls[c].key))
    /\ The(locks[PrefixKey(calls[c].key)]).id = calls[d].lockId

Acquiring(c) == calls[c].pc \in {"lock", "delay"}

(* a get that found no entry and has given up: every one of its lock     *)
(* attempts was refused                                                  *)
NeverGiven(c) ==
  /\ IsLeader(c) /\ calls[c].rd = None /\ calls[c].ops.get = 1
  /\ calls[c].pc = "done" /\ calls[c].lockId = 0

(* C19: lock acquisition ends.  No invocation makes more than            *)
(* spinWaitCount + 2 lock attempts; a get that found no entry and was    *)
(* refused the lock every time has made exactly that many and has failed *)
(* with the lock error; and, the store answering and every sleep ending, *)
(* an invocation that is acquiring the lock stops acquiring it.          *)
C19_LockAcquisitionEnds ==
  /\ [](\A c \in Calls :
          /\ calls[c].ops.lock <= spinWaitCount + 2
          /\ NeverGiven(c) =>
               /\ calls[c].out = Err("lock")
               /\ calls[c].ops.lock = spinWaitCount + 2
               /\ calls[c].ops.miss = 0)
  /\ \A c \in Calls : Acquiring(c) ~> ~Acquiring(c)

C19_Witness ==
  \E c \in Calls :
    /\ NeverGiven(c) /\ calls[c].out = Err("lock")
    /\ calls[c].ops.lock = spinWaitCount + 2

(* invocation c has been given the lock and has not yet finished its     *)
(* producer call and its store write                                     *)
OnWritePath(c) ==
  calls[c].lockId # 0 /\ calls[c].pc \in {"reread", "gotReread", "onMiss", "set"}

(* C20 as stated: at every instant at most one invocation per key, over  *)
(* all processes, is between being given the lock and finishing its      *)
(* producer call and store write.                                        *)
C20_OneOnWritePath ==
  \A c, d \in Calls :
    OnWritePath(c) /\ OnWritePath(d) /\ calls[c].key = calls[d].key => c = d

(* C20, amended: the lock of a key is given only when the key has no     *)
(* lock or its lock is past its ttl, so at most one invocation per key   *)
(* holds an unexpired lock; an invocation whose producer call and write  *)
(* outlast lockTtlMs stays on the write path next to the one that is     *)
(* given the lock after it.                                              *)
C20_LockGivenWhenFreeOrExpired ==
  /\ [](\A sk \in StoreKeys :
          locks[sk] # None =>
            \E c \in Calls :
              /\ calls[c].lockId = The(locks[sk]).id
              /\ PrefixKey(calls[c].key) = sk
              /\ The(locks[sk]).ttl <= now + lockTtlMs)
  /\ [][\A c \in Calls :
         calls'[c].lockId # calls[c].lockId =>
           LET sk == PrefixKey(calls'[c].key)
           IN  /\ locks[sk] = None \/ The(locks[sk]).ttl < now
               /\ locks'[sk] =
                    Some([ttl |-> now + lockTtlMs, id |-> calls'[c].lockId])]_vars

(* two invocations on the write path, on different processes, the later  *)
(* one holding the unexpired lock                                        *)
C20_Witness ==
  \E c, d \in Calls :
    /\ c # d /\ OnWritePath(c) /\ OnWritePath(d)
    /\ calls[c].key = calls[d].key /\ calls[c].proc # calls[d].proc
    /\ LockHeld(PrefixKey(calls[d].key))
    /\ The(locks[PrefixKey(calls[d].key)]).id = calls[d].lockId

Producing(c) == calls[c].pc = "onMiss"

(* C21: within one process, whatever the interleaving of get, refresh    *)
(* and clear on a key, no two invocations are waiting for the producer   *)
(* for that key at the same time, no lock expiring while its holder has  *)
(* not finished.                                                         *)
C21_OneProducerPerProcess ==
  \A c, d \in Calls :
    /\ Producing(c) /\ Producing(d)
    /\ calls[c].proc = calls[d].proc /\ calls[c].key = calls[d].key
    => c = d

(* a get is waiting for the producer, a clear has removed its in-flight  *)
(* entry, and a later get or refresh of the same process has asked for   *)
(* the lock and been refused                                             *)
C21_Witness ==
  \E c, d, e \in Calls :
    /\ IsGet(c) /\ Producing(c)
    /\ IsClear(e) /\ HasSettled(e)
    /\ d # c /\ calls[d].att \in {0, d} /\ calls[d].proc = calls[c].proc
    /\ calls[d].ops.lock > 0 /\ calls[d].lockId = 0

(* the step performs a store set, or a store del, issued by invocation c *)
SetBy(c) == calls'[c].ops.set > calls[c].ops.set
DelBy(c) == calls'[c].ops.del > calls[c].ops.del

(* invocation c holds the unexpired lock of its key *)
HoldsLease(c) ==
  /\ calls[c].lockId # 0
  /\ LockHeld(PrefixKey(calls[c].key))
  /\ The(locks[PrefixKey(calls[c].key)]).id = calls[c].lockId

(* C22 as stated: a store set or del is only performed for an invocation *)
(* that holds the unexpired lock of the key at that moment.              *)
C22_MutatesOnlyUnderLease ==
  [][\A c \in Calls : SetBy(c) \/ DelBy(c) => HoldsLease(c)]_vars

(* C22, amended: a store set is only issued by a get or refresh that has *)
(* been given the lock of the key and has not yet asked for its release, *)
(* though the lock may have expired by the time the set is performed; a  *)
(* store del is only issued by clear, which has asked for no lock.       *)
C22_SetsAfterLockDeletesWithout ==
  [][\A c \in Calls :
       /\ SetBy(c) =>
            /\ calls[c].kind \in {"get", "refresh"}
            /\ calls[c].lockId # 0 /\ calls[c].ops.lock > 0
            /\ calls[c].ops.unlock = 0
       /\ DelBy(c) =>
            /\ IsClear(c)
            /\ calls[c].lockId = 0 /\ calls[c].ops.lock = 0]_vars

(* an invocation has written after its lock was given to another, and a  *)
(* clear has deleted                                                     *)
C22_Witness ==
  \E c, d, e \in Calls :
    /\ calls[c].ops.set = 1 /\ calls[c].pc = "unlock"
    /\ d # c /\ HoldsLease(d)
    /\ IsClear(e) /\ calls[e].ops.del = 1

WriteFailed(c) == <<c, "set">> \in bgErrors

(* C23: when the store write that follows a producer call has failed,    *)
(* the failure has gone to onBackgroundError, the caller that waited for *)
(* the producer has the produced value, and unlock is called next with   *)
(* the invocation's lockId: once the store has performed that unlock the *)
(* invocation no longer holds the lock.                                  *)
C23_WriteFailureStillUnlocks ==
  \A c \in Calls :
    calls[c].ops.set = 1 /\ ~Written(c) =>
      /\ WriteFailed(c)
      /\ calls[c].ops.miss = 1 /\ calls[c].cacheData # None
      /\ ~calls[c].bg => calls[c].out = Ok(Produced(c))
      /\ calls[c].pc \in {"unlock", "done"}
      /\ calls[c].pc = "done" =>
           /\ calls[c].ops.unlock = 1
           /\ <<c, "unlock">> \notin bgErrors => ~HoldsLease(c)

C23_Witness ==
  \E c \in Calls :
    /\ WriteFailed(c) /\ calls[c].pc = "done" /\ <<c, "unlock">> \notin bgErrors
    /\ ~calls[c].bg /\ calls[c].out = Ok(Produced(c))
    /\ locks[PrefixKey(calls[c].key)] = None
    /\ StoreGet(PrefixKey(calls[c].key)) # calls[c].cacheData

(* get d was issued by the process of get c, for the same key, after the *)
(* execution c had started had settled                                   *)
IssuedAfterSettled(c, d) ==
  /\ IsLeader(c) /\ IsGet(d) /\ c < d
  /\ calls[c].proc = calls[d].proc /\ calls[c].key = calls[d].key
  /\ c \notin calls[d].saw

(* C24: an execution of get that has settled, with a value or with a     *)
(* failure, is no longer in the in-flight table, and a get issued after  *)
(* it settled is not given its promise: if no other execution is in      *)
(* flight it starts one of its own, with its own store read.             *)
C24_SettledGetLeavesTable ==
  /\ \A c \in Calls :
       IsLeader(c) /\ HasSettled(c) => InFlight(calls[c].proc, calls[c].key) # c
  /\ \A c, d \in Calls :
       IssuedAfterSettled(c, d) =>
         /\ calls[d].att # c
         /\ calls[d].saw = {} => IsLeader(d)
         /\ IsLeader(d) /\ calls[d].pc # "read" => calls[d].ops.get >= 1

(* a get failed, and a get issued after that has made its own store read *)
(* and its own lock attempt                                              *)
C24_Witness ==
  \E c, d \in Calls :
    /\ IssuedAfterSettled(c, d) /\ calls[c].out.st = "err"
    /\ IsLeader(d) /\ calls[d].ops.get >= 1 /\ calls[d].ops.lock > 0

(* C25: a store unlock never removes a lock that is held, unexpired,     *)
(* under another lockId than the one presented, however the unlock is    *)
(* interleaved with the expiry of locks and with lock calls.             *)
C25_UnlockSparesOtherTokens ==
  [][\A c \in Calls :
       calls'[c].ops.unlock > calls[c].ops.unlock =>
         LET sk == PrefixKey(calls[c].key)
         IN  RedisLockHeld(sk) /\ locks'[sk] = None =>
               The(locks[sk]).id = calls[c].lockId]_vars

(* the first get of each process read the same entry, past its soft      *)
(* expiry, before either asked for the lock, and both have resolved      *)
SameCycle ==
  /\ IsLeader(1) /\ IsLeader(2) /\ calls[1].proc # calls[2].proc
  /\ calls[1].rd # None /\ calls[1].rd = calls[2].rd
  /\ calls[1].rdClass = "after" /\ calls[2].rdClass = "after"
  /\ calls[1].out.st = "ok" /\ calls[2].out.st = "ok"

(* C26: when two processes have each read the same stale entry before    *)
(* either was given the lock, only one of them invokes the producer: the *)
(* one given the lock second re-reads the store and returns the value    *)
(* the first wrote, whether it asked for the lock while the first held   *)
(* it or after the first released it.                                    *)
C26_OneProducerPerCycle ==
  SameCycle =>
    /\ calls[1].ops.miss + calls[2].ops.miss = 1
    /\ calls[1].out = calls[2].out

(* two executions of get of one process that read the same entry, past   *)
(* its soft expiry                                                       *)
ReadSameStale(c, d) ==
  /\ IsLeader(c) /\ IsLeader(d) /\ c # d
  /\ calls[c].proc = calls[d].proc /\ calls[c].key = calls[d].key
  /\ calls[c].rd # None /\ calls[c].rd = calls[d].rd
  /\ calls[c].rdClass = "after" /\ calls[d].rdClass = "after"

(* C27: with returnStale = true the gets of one process that read the    *)
(* same stale entry cause one producer invocation between them, also     *)
(* when a later one is issued while the background refresh of an earlier *)
(* one is running or writing.                                            *)
C27_OneRefreshPerStaleEntry ==
  returnStale =>
    \A c, d \in Calls :
      ReadSameStale(c, d) => calls[c].ops.miss + calls[d].ops.miss <= 1

(* invocation c was given the lock after waiting and has acted on the    *)
(* answer to its second read of the store                                *)
ActedOnReread(c) == calls[c].didSpin /\ calls[c].lockId # 0 /\ calls[c].rrClass # ""

(* C28: an invocation given the lock after waiting whose second read     *)
(* found no entry, or an entry past its soft expiry, has called the      *)
(* producer; it has skipped the producer only if the entry it read was   *)
(* not past its soft expiry.                                             *)
C28_RereadStaleProduces ==
  \A c \in Calls :
    ActedOnReread(c) =>
      /\ calls[c].rrClass \in {"absent", "after"} => calls[c].ops.miss = 1
      /\ calls[c].ops.miss = 0 => calls[c].rrClass \in {"before", "at"}
      /\ calls[c].ops.miss = 1 /\ calls[c].ops.set = 1 => calls[c].cacheData # None

(* C29: an invocation given the lock after waiting whose second read     *)
(* found an entry that is not past its soft expiry and whose data is     *)
(* falsy skips the producer and returns that data, as it does for truthy *)
(* data.                                                                 *)
C29_RereadFalsyReturned ==
  \A c \in Calls :
    /\ ActedOnReread(c) /\ calls[c].rr # None
    /\ calls[c].rrClass \in {"before", "at"}
    /\ ~Truthy(The(calls[c].rr).data)
    => /\ calls[c].ops.miss = 0
       /\ calls[c].pc = "done" => calls[c].out = Ok(The(calls[c].rr).data)

(* invocation c was given the lock after waiting and went on without     *)
(* calling the producer                                                  *)
SkippedProducer(c) == ActedOnReread(c) /\ calls[c].ops.miss = 0

(* C30: an invocation given the lock after waiting that skips the        *)
(* producer because its second read found a value makes no store write   *)
(* and unlocks with its own lockId before it returns that value.         *)
C30_SkipUnlocksWithoutWrite ==
  \A c \in Calls :
    SkippedProducer(c) =>
      /\ calls[c].pc \in {"unlockEarly", "done"}
      /\ calls[c].ops.set = 0 /\ calls[c].cacheData = None
      /\ calls[c].pc = "unlockEarly" =>
           calls[c].ops.unlock = 0 /\ calls[c].out.st = "pending"
      /\ calls[c].pc = "done" =>
           /\ calls[c].ops.unlock = 1
           /\ ~HoldsLease(c)
           /\ calls[c].out = Ok(The(calls[c].rr).data)

C30_Witness ==
  \E c \in Calls :
    /\ SkippedProducer(c) /\ calls[c].pc = "done"
    /\ calls[c].ops.unlock = 1 /\ calls[c].freed = FALSE
    /\ locks[PrefixKey(calls[c].key)] = None

(* C31: an invocation that is refused the lock at every attempt stops    *)
(* retrying once it has made more than ceil(waitForUnlockMs / spinMs)    *)
(* attempts, so it makes at most ceil(waitForUnlockMs / spinMs) + 1      *)
(* store lock calls for one acquisition.                                 *)
C31_AttemptsWithinBudget ==
  \A c \in Calls : calls[c].ops.lock <= Ceil(waitForUnlockMs, spinMs) + 1

GivenLock(c) == calls[c].kind \in {"get", "refresh"} /\ calls[c].lockId # 0

(* the store reads invocation c has made beyond the one of doGet *)
Rereads(c) == calls[c].ops.get - (IF IsGet(c) THEN 1 ELSE 0)

(* C32: an invocation that was given the lock reports didSpin exactly    *)
(* when one of its lock attempts was refused before; given the lock at   *)
(* its first attempt it reports didSpin = false and does not read the    *)
(* store again, and given it later it reads the store again before it    *)
(* goes on.                                                              *)
C32_DidSpinIffRefusedBefore ==
  \A c \in Calls :
    GivenLock(c) =>
      /\ calls[c].didSpin <=> calls[c].ops.lock > 1
      /\ ~calls[c].didSpin => Rereads(c) = 0 /\ calls[c].rr = None
      /\ calls[c].didSpin /\ calls[c].pc # "reread" => Rereads(c) = 1

C32_Witness ==
  \E c, d \in Calls :
    /\ GivenLock(c) /\ calls[c].didSpin /\ calls[c].ops.lock > 1 /\ Rereads(c) = 1
    /\ GivenLock(d) /\ ~calls[d].didSpin /\ calls[d].ops.lock = 1
    /\ calls[d].ops.miss = 1 /\ Rereads(d) = 0

(* the lock acquisition of invocation c has ended and the lock was not   *)
(* given to it                                                           *)
EndedWithoutLease(c) ==
  /\ calls[c].kind \in {"get", "refresh"} /\ calls[c].ops.lock > 0
  /\ calls[c].pc = "done" /\ calls[c].lockId = 0

(* C33: an invocation whose lock acquisition ended without the lock      *)
(* fails with the lock error (the call rejects with it, or, when the     *)
(* stale data was already returned, onBackgroundError is given it) and   *)
(* has called neither the producer nor store.set nor store.unlock.       *)
C33_NoLeaseNoWrite ==
  \A c \in Calls :
    EndedWithoutLease(c) =>
      /\ IF calls[c].bg THEN <<c, "lock">> \in bgErrors
                        ELSE calls[c].out = Err("lock")
      /\ calls[c].ops.miss = 0 /\ calls[c].ops.set = 0 /\ calls[c].ops.unlock = 0
      /\ calls[c].cacheData = None

C33_Witness ==
  \E c \in Calls :
    /\ EndedWithoutLease(c) /\ ~calls[c].bg /\ calls[c].ops.lock > 1
    /\ calls[c].out = Err("lock") /\ calls[c].ops.miss = 0
    /\ \E d \in Calls : calls[d].ops.set > 0

(* a get that read an entry and has compared its expiresAt with the      *)
(* clock                                                                 *)
Classified(c) == IsLeader(c) /\ calls[c].rdClass \in {"before", "at", "after"}

(* the get went on to updateCache: a refresh of the entry was started    *)
StartedRefresh(c) ==
  calls[c].pc \in {"lock", "delay"} \/ calls[c].ops.lock > 0

(* the get returned the stored data and did nothing else                 *)
ServedAsFresh(c) ==
  /\ calls[c].pc = "done" /\ calls[c].out = Ok(The(calls[c].rd).data)
  /\ calls[c].ops.lock = 0 /\ calls[c].ops.miss = 0 /\ ~calls[c].bg

(* C34 as stated: an entry is stale exactly when the clock is at or past *)
(* its expiresAt, so a get that compares at the instant now = expiresAt  *)
(* starts a refresh.                                                     *)
C34_StaleFromExpiryOn ==
  \A c \in Calls :
    Classified(c) => (StartedRefresh(c) <=> calls[c].rdClass \in {"at", "after"})

(* C34: an entry is stale exactly when the clock is past its expiresAt.  *)
(* A get that compares after that instant starts a refresh; a get that   *)
(* compares before it or at the instant now = expiresAt returns the      *)
(* stored data and makes no lock attempt and no producer call.           *)
C34_StaleAfterExpiry ==
  \A c \in Calls :
    Classified(c) =>
      /\ StartedRefresh(c) <=> calls[c].rdClass = "after"
      /\ calls[c].rdClass \in {"before", "at"} => ServedAsFresh(c)

C34_Witness ==
  \E c, d \in Calls :
    /\ Classified(c) /\ calls[c].rdClass = "at" /\ ServedAsFresh(c)
    /\ The(calls[c].rd).expiresAt = now
    /\ Classified(d) /\ calls[d].rdClass = "after" /\ StartedRefresh(d)

(* invocation c has entered updateCache                                  *)
InUpdate(c) ==
  /\ calls[c].kind \in {"get", "refresh"}
  /\ calls[c].pc \in {"lock", "delay"} \/ calls[c].ops.lock > 0

(* the refresh a get has started on a stale entry with returnStale = true *)
BackgroundRefresh(c) == StaleServed(c) /\ InUpdate(c)

(* C35: with returnStale = true the refresh started by a get on a stale  *)
(* entry asks for the lock once and never sleeps for it: refused, it has *)
(* ended after that one attempt.  Every other invocation of updateCache  *)
(* (returnStale = false, no entry read, refresh) spins: refused, it      *)
(* sleeps and asks again.                                                *)
C35_BackgroundRefreshNeverSpins ==
  \A c \in Calls :
    InUpdate(c) =>
      /\ calls[c].spin <=> ~BackgroundRefresh(c)
      /\ BackgroundRefresh(c) =>
           /\ calls[c].ops.lock <= 1 /\ calls[c].pc # "delay" /\ ~calls[c].didSpin
           /\ calls[c].pc # "lock" => calls[c].ops.lock = 1
           /\ calls[c].ops.lock = 1 /\ calls[c].lockId = 0 => calls[c].pc = "done"
      /\ ~BackgroundRefresh(c) /\ calls[c].lockId = 0 /\ calls[c].ops.lock = 1 =>
           calls[c].pc \in {"delay", "lock"}

C35_Witness ==
  \E c, d \in Calls :
    /\ BackgroundRefresh(c) /\ calls[c].ops.lock = 1 /\ calls[c].lockId = 0
    /\ calls[c].pc = "done"
    /\ InUpdate(d) /\ ~BackgroundRefresh(d) /\ calls[d].ops.lock > 1 /\ calls[d].didSpin

(* C36: in one process, while an execution of get(key) is pending the    *)
(* in-flight table holds that execution under the key; so at most one    *)
(* execution of get(key) is pending at a time, and a get(key) issued     *)
(* while one is pending attaches to it.                                  *)
C36_PendingGetIsInFlight ==
  \A p \in Procs, key \in Keys :
    /\ \A d \in PendingGets(p, key) : InFlight(p, key) = d
    /\ Cardinality(PendingGets(p, key)) <= 1
    /\ \A c \in Calls :
         /\ IsGet(c) /\ calls[c].proc = p /\ calls[c].key = key
         /\ calls[c].saw # {}
         => calls[c].att \in calls[c].saw

(* one process whose caller awaits each call before it issues the next: *)
(* a get or a refresh, then a clear, then gets                          *)
IssueCleared ==
  \E c \in Calls, key \in Keys :
    /\ Awaited(c)
    /\ IF c = 1 THEN get(c, 1, key) \/ refresh(c, 1, key)
       ELSE IF c = 2 THEN clear(c, 1, key)
       ELSE get(c, 1, key)

NextCleared == IssueCleared \/ StepClear \/ Tick

SpecCleared == InitWith(PairKinds, BOOLEAN) /\ [][NextCleared]_vars

(* the clear, issued after call 1 had returned, has resolved             *)
Cleared == IsClear(2) /\ calls[2].pc = "done"

(* the value the producer call of invocation c returned                  *)
ProducedBefore(c) == calls[c].cacheData # None /\ calls[c].ops.miss = 1

(* C37 as stated: once the clear has resolved the store holds no entry   *)
(* until a producer call started after the clear has written one; the    *)
(* write left pending by the call that returned before the clear does    *)
(* not bring the entry back, and the get issued after the clear does not *)
(* return the value produced before it.                                  *)
C37_ClearedStaysCleared ==
  Cleared =>
    /\ \A sk \in StoreKeys :
         items[sk] # None =>
           /\ calls[3].cacheData # None
           /\ The(items[sk]).data = The(calls[3].cacheData)
    /\ ProducedBefore(1) /\ IsGet(3) /\ HasSettled(3) => calls[3].out # Ok(DataOf(1))

(* C37: clear deletes the entry that is stored when its del takes        *)
(* effect and neither waits for nor cancels the write of a call that has *)
(* returned.  The get issued after the clear has resolved finds no       *)
(* entry, or the entry written after the del by the call that returned   *)
(* before the clear, in its read or in its re-read; it never finds the   *)
(* entry that was stored when the del took effect.  It returns the value it produced itself or the      *)
(* value of that late write.                                             *)
C37_ClearedOrWrittenLater ==
  /\ [][\A c \in Calls : DelBy(c) => items'[PrefixKey(calls[c].key)] = None]_vars
  /\ [](Cleared /\ IsLeader(3) /\ calls[3].pc # "read" =>
          /\ \A found \in {calls[3].rd, calls[3].rr} :
               found # None =>
                 /\ ProducedBefore(1) /\ Written(1)
                 /\ The(found) = The(calls[1].cacheData)
          /\ calls[3].out.st = "ok" =>
               \/ calls[3].ops.miss = 1 /\ calls[3].out = Ok(Produced(3))
               \/ /\ calls[3].rd # None \/ calls[3].rr # None
                  /\ calls[3].out = Ok(DataOf(1)))

C37_Witness ==
  /\ Cleared /\ ProducedBefore(1) /\ calls[1].ops.set = 1
  /\ IsLeader(3) /\ calls[3].rd # None /\ calls[3].out = Ok(DataOf(1))
  /\ calls[3].ops.miss = 0

(* no producer call and no store call has failed so far                  *)
NothingFailed ==
  \A d \in Calls : ~ProducerFailed(d) /\ ReportedFor(d) \cap {"set", "unlock"} = {}

(* C38 as stated: onBackgroundError is invoked only for a failed store   *)
(* call or a failed producer call; while none has failed it has not been *)
(* invoked, in particular not for a get that was served stale data and   *)
(* found the lock held.                                                  *)
C38_ReportsOnlyFailures == NothingFailed => bgErrors = {}

(* C38: onBackgroundError is also given the lock error.  It is given it  *)
(* exactly for the gets that were served stale data and whose single     *)
(* lock attempt was refused, no store call and no producer call having   *)
(* failed for them; every other error it is given is a producer error of *)
(* a background refresh or a failed write or unlock.                     *)
C38_RefusedLockReported ==
  \A c \in Calls :
    /\ <<c, "lock">> \in bgErrors <=> StaleServed(c) /\ EndedWithoutLease(c)
    /\ <<c, "lock">> \in bgErrors =>
         /\ ReportedFor(c) = {"lock"} /\ calls[c].ops.lock = 1
         /\ calls[c].out = Ok(The(calls[c].rd).data)
    /\ <<c, "onMiss">> \in bgErrors => StaleServed(c) /\ calls[c].ops.miss = 1
    /\ ReportedFor(c) \cap {"set", "unlock"} # {} => calls[c].cacheData # None

C38_Witness ==
  \E c, d \in Calls :
    /\ NothingFailed
    /\ StaleServed(c) /\ EndedWithoutLease(c) /\ ReportedFor(c) = {"lock"}
    /\ calls[d].pc = "onMiss" /\ HoldsLease(d)

(* the invocations other than c that were given the lock and whose write *)
(* the store has performed                                               *)
WritersBefore(c) == {d \in Calls \ {c} : GivenLock(d) /\ Written(d)}

(* the last of them to call the producer                                 *)
LastWriter(c) ==
  CHOOSE d \in WritersBefore(c) : \A e \in WritersBefore(c) : calls[e].ver <= calls[d].ver

(* invocation c was refused the lock, was given it once its holder had   *)
(* released it, and the store has answered the read it made then; no     *)
(* clear was called                                                      *)
RereadAfterWaiting(c) ==
  /\ calls[c].pc = "gotReread" /\ calls[c].didSpin /\ calls[c].freed
  /\ \A k \in Calls : ~IsClear(k)

(* the step performs the store unlock asked by setAndUnlock for d        *)
UnlockAfterWrite(d) ==
  /\ calls[d].cacheData # None
  /\ calls'[d].ops.unlock > calls[d].ops.unlock

(* C39: after a successful producer call the unlock is asked only once   *)
(* the write has settled: the store performs the unlock of an invocation *)
(* that produced a value after it performed its set, and while the set   *)
(* is outstanding the invocation has not unlocked.  So, no lock expiring *)
(* under its holder, an invocation given the lock after waiting finds    *)
(* every earlier holder finished, and its re-read returns the entry      *)
(* written by the last of them that wrote.                               *)
C39_WriteBeforeUnlock ==
  /\ [][\A d \in Calls :
          UnlockAfterWrite(d) => calls[d].pc = "unlock" /\ calls[d].ops.set = 1]_vars
  /\ [](\A d \in Calls :
          calls[d].pc = "set" => calls[d].ops.unlock = 0 /\ HoldsLease(d))
  /\ [](\A c \in Calls :
          RereadAfterWaiting(c) =>
            /\ \A d \in Calls \ {c} : GivenLock(d) => calls[d].pc = "done"
            /\ WritersBefore(c) # {} =>
                 /\ calls[c].rr # None
                 /\ The(calls[c].rr) = The(calls[LastWriter(c)].cacheData))

C39_Witness ==
  \E c, d \in Calls :
    /\ RereadAfterWaiting(c) /\ calls[c].ops.lock > 1
    /\ d \in WritersBefore(c) /\ calls[d].ops.set = 1 /\ calls[d].ops.unlock = 1
    /\ calls[c].rr = calls[d].cacheData
====
